---- MODULE Spec2Model ----
(***************************************************************************)
(* State-machine model of server.js: the docs-only RAG pipeline (crawl,    *)
(* chunk, embed, lazy shared index, retrieval, grounded answer), the two   *)
(* POST handlers and the per-user session store.                           *)
(*                                                                         *)
(* Every `await` of the source is a scheduling point: an action runs one   *)
(* handler from an event (request arrival, or the return of an external    *)
(* call) to its next await or to its response.                             *)
(*                                                                         *)
(* Strings that the code inspects by prefix or by URL part (URLs, hrefs,   *)
(* allowedDocs entries) are sequences of tokens; page texts are sequences  *)
(* of one-character strings; other strings are atomic.                     *)
(***************************************************************************)
EXTENDS Integers, Sequences, FiniteSets, TLC

\* ------------------------------------------------------------------ bounds
\* request slots that may be in flight together
NReq == 2
\* total number of requests that arrive in one behaviour of Spec
MaxArrivals == 2
\* total number of free-chat requests in one behaviour of SpecSession
MaxChat == 10
\* server.js:51-53 read these from the environment (defaults 120, 1100, 160)
MAX_PAGES == 3
CHUNK_SIZE == 3
CHUNK_OVERLAP == 1
\* server.js:144 has BATCH = 100; scaled down so that a build needs
\* more than one embedding call
BATCH == 2
\* SpecChunk: longest text, largest size and overlap passed to chunkText, and
\* the number of chunks after which an unending loop is no longer followed
MaxText == 5
MaxSize == 3
MaxOut == 7
\* SpecRetrieve: the most records in an index; k ranges over 0..MaxIndex
MaxIndex == 3

\* ------------------------------------------------------- program constants
MAX_TURNS == 8
\* retrieveDocs(question, 8) at server.js:174
TOP_K == 8
\* top.slice(0, 2) at server.js:210
MAX_CITATIONS == 2

FALLBACK == "I don't see that in the Naviga Circulation manuals."
SORRY == "Sorry, I didn't quite catch that."
SHORTENED == "\"[excerpt shortened]\""

ORIGIN == "https://docs.navigaglobal.com"
DOC_BASES ==
  << <<ORIGIN, "/circulation-setup-manual">>,
     <<ORIGIN, "/circulation-user-manual">> >>

\* ------------------------------------------------------------ URL strings
\* A URL or href is a sequence of tokens: an origin token first when it is
\* absolute, then path tokens, then at most one fragment token.
Origins == {ORIGIN, "https://evil.example"}
FragTokens == {"#sec"}
\* a token that the extension regexp of isDocLike matches at the end
ExtTokens == {".png"}

StartsWith(s, p) == Len(p) <= Len(s) /\ SubSeq(s, 1, Len(p)) = p

NoFrag(u) == SelectSeq(u, LAMBDA t : t \notin FragTokens)
UrlOrigin(u) == u[1]
Pathname(u) == Tail(NoFrag(u))

\* new URL(href, base).toString()
Resolve(href, base) ==
  IF Len(href) = 0 THEN NoFrag(base)
  ELSE IF Head(href) \in Origins THEN href
  ELSE IF Head(href) \in FragTokens THEN NoFrag(base) \o href
  ELSE <<UrlOrigin(base)>> \o href

\* the scope test lets every url through
AnyUrl(url, base) == TRUE

\* server.js:58-64
sameOriginPath(url, base) ==
  LET u == Resolve(url, base)
  IN  /\ UrlOrigin(u) = UrlOrigin(base)
      /\ StartsWith(Pathname(u), Pathname(base))

isDocLike(href) ==
  /\ Len(href) > 0
  /\ Head(href) \notin FragTokens
  /\ href[Len(href)] \notin ExtTokens

\* DOC_BASES.find(b => sameOriginPath(url, b)): <<>> when there is none
FindBase(url) ==
  LET hits == SelectSeq(DOC_BASES, LAMBDA b : sameOriginPath(url, b))
  IN  IF Len(hits) = 0 THEN <<>> ELSE <<hits[1]>>

\* --------------------------------------------------------------- chunkText
IsBlank(s) == \A i \in 1..Len(s) : s[i] = " "

Min(a, b) == IF a < b THEN a ELSE b

Max(a, b) == IF a > b THEN a ELSE b

\* String.prototype.slice(a, b): a negative index counts from the end
SliceIndex(s, a) == IF a < 0 THEN Max(Len(s) + a, 0) ELSE Min(a, Len(s))
Slice(s, a, b) == SubSeq(s, SliceIndex(s, a) + 1, SliceIndex(s, b))

\* the loop advances by size alone
StrideIgnoresOverlap(size, overlap) == size

\* server.js:96: i += (size - overlap)
Stride(size, overlap) == size - overlap

\* server.js:96-98 from index i, for a stride that is positive
RECURSIVE ChunkFrom(_, _, _, _)
ChunkFrom(s, i, size, overlap) ==
  IF i < Len(s)
  THEN <<Slice(s, i, Min(Len(s), i + size))>>
         \o ChunkFrom(s, i + Stride(size, overlap), size, overlap)
  ELSE <<>>

chunkText(t, size, overlap) ==
  IF IsBlank(t) THEN <<>> ELSE ChunkFrom(t, 0, size, overlap)

\* --------------------------------------------------------------- cosineSim
\* Vectors have integer components.  cosineSim(a, b) is
\* dot / (sqrt(na) * sqrt(nb) + 1e-12); it is kept exactly as the pair
\* <<sign(dot) * dot^2, na * nb>>, which orders as the quotient does.
RECURSIVE DotUpTo(_, _, _)
DotUpTo(a, b, n) == IF n = 0 THEN 0 ELSE DotUpTo(a, b, n - 1) + a[n] * b[n]

cosineSim(a, b) ==
  LET n   == Min(Len(a), Len(b))
      dot == DotUpTo(a, b, n)
      na  == DotUpTo(a, a, n)
      nb  == DotUpTo(b, b, n)
  IN  IF na * nb = 0 THEN <<0, 1>>
      ELSE <<(IF dot < 0 THEN -1 ELSE 1) * dot * dot, na * nb>>

\* x.score > y.score
ScoreGT(x, y) == x[1] * y[2] > y[1] * x[2]
\* score > 0.1
AboveThreshold(x) == x[1] > 0 /\ 100 * x[1] > x[2]

\* ------------------------------------------------------------ retrieveDocs
\* the records are left in index order
Unsorted(rs) == rs

\* Array.prototype.sort with (a, b) => b.score - a.score: stable, descending
RECURSIVE InsertDesc(_, _)
InsertDesc(sorted, r) ==
  IF Len(sorted) = 0 THEN <<r>>
  ELSE IF ScoreGT(r.score, Head(sorted).score)
       THEN <<r>> \o sorted
       ELSE <<Head(sorted)>> \o InsertDesc(Tail(sorted), r)

RECURSIVE SortDesc(_)
SortDesc(rs) ==
  IF Len(rs) = 0 THEN <<>>
  ELSE InsertDesc(SortDesc(SubSeq(rs, 1, Len(rs) - 1)), rs[Len(rs)])

Scored(index, q) ==
  [i \in 1..Len(index) |->
     [url |-> index[i].url, title |-> index[i].title, text |-> index[i].text,
      embedding |-> index[i].embedding,
      score |-> cosineSim(q, index[i].embedding)]]

retrieveDocs(index, q, k) ==
  LET sorted == SortDesc(Scored(index, q))
      sliced == SubSeq(sorted, 1, Min(k, Len(sorted)))
  IN  SelectSeq(sliced, LAMBDA r : AboveThreshold(r.score))

\* ----------------------------------------------------------- pushToSession
\* trims to MAX_TURNS turns instead of MAX_TURNS pairs
RECURSIVE TrimToTurns(_)
TrimToTurns(arr) ==
  IF Len(arr) > MAX_TURNS THEN TrimToTurns(SubSeq(arr, 3, Len(arr))) ELSE arr

RECURSIVE Trim(_)
Trim(arr) ==
  IF Len(arr) > MAX_TURNS * 2 THEN Trim(SubSeq(arr, 3, Len(arr))) ELSE arr

\* the array stored for userId after pushToSession(userId, role, content)
pushToSession(sessions, userId, role, content) ==
  LET arr == IF userId \in DOMAIN sessions THEN sessions[userId] ELSE <<>>
  IN  Trim(Append(arr, [role |-> role, content |-> content]))

\* ------------------------------------------------------- the outside world
\* What the documentation site serves in Spec: title, main text and the raw
\* href values of a page.  SpecCrawl lets a page carry any links instead.
SETUP == DOC_BASES[1]
USER == DOC_BASES[2]
PAGE_A == <<ORIGIN, "/circulation-setup-manual", "/a">>

Title(url) == IF url = SETUP THEN "Setup" ELSE IF url = USER THEN "User" ELSE "Page"
\* two pages that the site of Spec never links to
OLD_PAGE == <<ORIGIN, "/circulation-user-manual", "-old">>
EVIL_PAGE == <<"https://evil.example", "/x">>
Text(url) ==
  IF url = SETUP THEN <<"a", "b", "c", "d">>
  ELSE IF url = USER THEN <<"b", "a">>
  ELSE IF url \in {OLD_PAGE, EVIL_PAGE} THEN <<"a">>
  ELSE <<" ">>
SiteLinks(url) ==
  IF url = SETUP THEN <<PAGE_A, <<"#sec">>>>
  ELSE IF url = USER THEN <<<<"/circulation-user-manual", "/b">>>>
  ELSE <<SETUP>>

\* raw href values a fetched page may carry in SpecCrawl
Hrefs ==
  { PAGE_A,
    <<ORIGIN, "/circulation-setup-manual", "/c">>,
    <<"/circulation-user-manual", "-old">>,
    SETUP,
    <<"/circulation-user-manual", "/b">>,
    <<"#sec">>,
    <<ORIGIN, "/circulation-setup-manual", "/a", ".png">>,
    <<"https://evil.example", "/x">> }
\* longest list of links on one page in SpecCrawl
MaxLinks == 3
LinkLists == UNION {[1..n -> Hrefs] : n \in 0..MaxLinks}

\* the embedding model: one vector per text
EmbedOf(text) == IF text[1] = "a" THEN <<1, 0>> ELSE <<0, 1>>
\* embeddings the model may return for a question
QueryVecs == {<<1, 0>>, <<1, 1>>, <<-1, 0>>}

LONGQUOTE == "\"a quoted span of sixty or more characters ...\""
\* contents the completion model may return
GroundedContents == {"", " ", "answer", LONGQUOTE}
ChatContents == {"", "ok"}

\* String.prototype.trim on the strings of the model
TrimStr(s) == IF s = " " THEN "" ELSE s
\* reply.replace(/"([^"]{60,})"/g, '"[excerpt shortened]"')
Sanitize(s) == IF s = LONGQUOTE THEN SHORTENED ELSE s

\* ---------------------------------------------------------------- requests
Reqs == 1..NReq
Users == {"default-user", "u2"}

\* allowedDocs of a request body: isArray is Array.isArray(allowedDocs);
\* an entry is a string (a token sequence) or a value that is no string
Entry(s) == [isString |-> TRUE, s |-> s]
NUMBER_ENTRY == [isString |-> FALSE, s |-> <<>>]
NoDocs == [isArray |-> FALSE, items |-> <<>>]
Docs(items) == [isArray |-> TRUE, items |-> items]
EVIL == <<"https://evil.example", "/x">>

Body(endpoint, allowedDocs, text, userId, mode, restrict) ==
  [endpoint |-> endpoint, allowedDocs |-> allowedDocs, text |-> text,
   userId |-> userId, mode |-> mode, restrict |-> restrict]
DocsOnlyInputs ==
  { Body("/docs-only", NoDocs, "hi", "default-user", "none", "none"),
    Body("/docs-only", NoDocs, " ", "default-user", "none", "none"),
    Body("/docs-only", Docs(<<Entry(SETUP), Entry(PAGE_A)>>), "hi", "default-user", "none", "none"),
    Body("/docs-only", Docs(<<Entry(USER), Entry(EVIL)>>), "hi", "default-user", "none", "none"),
    Body("/docs-only", Docs(<<NUMBER_ENTRY>>), "hi", "default-user", "none", "none"),
    Body("/docs-only", NoDocs, "", "default-user", "none", "none"),
    Body("/docs-only", Docs(<<Entry(USER), Entry(EVIL)>>), "", "default-user", "none", "none"),
    Body("/docs-only", Docs(<<NUMBER_ENTRY>>), "", "default-user", "none", "none") }
ChatInputs ==
  { Body("/chat", NoDocs, "", "default-user", "none", "none"),
    Body("/chat", NoDocs, "hi", "default-user", "none", "none"),
    Body("/chat", NoDocs, "hi", "u2", "none", "none"),
    Body("/chat", NoDocs, "hi", "default-user", "kb-only", "none"),
    Body("/chat", Docs(<<Entry(EVIL)>>), "hi", "default-user", "kb-only", "none"),
    Body("/chat", NoDocs, "hi", "default-user", "none", "kb+docs"),
    Body("/chat", NoDocs, "hi", "default-user", "none", "docs-only") }
Inputs == DocsOnlyInputs \cup ChatInputs
NoInput ==
  [endpoint |-> "", allowedDocs |-> NoDocs, text |-> "",
   userId |-> "default-user", mode |-> "none", restrict |-> "none"]

\* messages of SpecSession, the k-th request sending the k-th
Messages ==
  <<"m1", "m2", "m3", "m4", "m5", "m6", "m7", "m8", "m9", "m10", "m11", "m12">>

Response(status, reply, citations, source, error) ==
  [status |-> status, reply |-> reply, citations |-> citations,
   source |-> source, error |-> error]
NoResponse == Response(0, "", <<>>, "", "")

\* ------------------------------------------------------------------- state
VARIABLES
  RAG_INDEX,     \* [isNull, records]: the shared index, null at start
  userSessions,  \* the Map userId -> array of {role, content}
  pc,            \* per request: where its handler is suspended
  inp,           \* per request: the request body and endpoint
  visited,       \* per request: buildDocsIndex's local visited
  queue,         \* per request: buildDocsIndex's local queue
  pages,         \* per request: buildDocsIndex's local pages
  cur,           \* per request: the url of the fetch in flight
  records,       \* per request: buildDocsIndex's local records
  bi,            \* per request: the i of the embedding loop
  top,           \* per request: what retrieveDocs returned
  resp,          \* per request: the response sent
  fetched,       \* history: urls passed to fetchPage by the request's build
  extCalls,      \* history: kinds of external call the request has made
  retrieved,     \* history: retrieveDocs has returned to the request
  thrown,        \* history: the awaited call whose error reached the catch
  history,       \* history: every turn pushed to a user's session
  arrivals,      \* number of requests that have arrived
  chunk,         \* one call of chunkText: [pc, s, size, overlap, i, out]
  retr           \* one ranking of retrieveDocs: [pc, index, q, k, result]

vars ==
  <<RAG_INDEX, userSessions, pc, inp, visited, queue, pages, cur, records, bi,
    top, resp, fetched, extCalls, retrieved, thrown, history, arrivals,
    chunk, retr>>

\* the variables of the server
serverVars ==
  <<RAG_INDEX, userSessions, pc, inp, visited, queue, pages, cur, records, bi,
    top, resp, fetched, extCalls, retrieved, thrown, history, arrivals>>

BuildPcs == {"fetch", "embed"}

\* no call of chunkText, no ranking under study
NoChunk == [pc |-> "none", s |-> <<>>, size |-> CHUNK_SIZE, overlap |-> CHUNK_OVERLAP,
            i |-> 0, out |-> <<>>]
NoRetr == [pc |-> "none", index |-> <<>>, q |-> <<>>, k |-> TOP_K, result |-> <<>>]

\* the server after construction
ServerInit ==
  /\ RAG_INDEX = [isNull |-> TRUE, records |-> <<>>]
  /\ userSessions = <<>>
  /\ pc = [r \in Reqs |-> "idle"]
  /\ inp = [r \in Reqs |-> NoInput]
  /\ visited = [r \in Reqs |-> {}]
  /\ queue = [r \in Reqs |-> <<>>]
  /\ pages = [r \in Reqs |-> <<>>]
  /\ cur = [r \in Reqs |-> <<>>]
  /\ records = [r \in Reqs |-> <<>>]
  /\ bi = [r \in Reqs |-> 0]
  /\ top = [r \in Reqs |-> <<>>]
  /\ resp = [r \in Reqs |-> NoResponse]
  /\ fetched = [r \in Reqs |-> <<>>]
  /\ extCalls = [r \in Reqs |-> {}]
  /\ retrieved = [r \in Reqs |-> FALSE]
  /\ thrown = [r \in Reqs |-> ""]
  /\ history = [u \in Users |-> <<>>]
  /\ arrivals = 0

Init == ServerInit /\ chunk = NoChunk /\ retr = NoRetr

\* ------------------------------------------------- buildDocsIndex, by steps
\* A step of a handler is computed as a record of the request's next local
\* values: pc, the locals of buildDocsIndex, whether RAG_INDEX is assigned
\* (publish) and the response.

\* the visited check of line 116 left out
NeverVisited(v, url) == FALSE

\* server.js:116
AlreadyVisited(v, url) == url \in v

\* server.js:114-117: the loop runs without suspending until it has a url to
\* fetch (go) or its condition fails
RECURSIVE NextFetch(_, _, _)
NextFetch(v, q, npages) ==
  IF Len(q) = 0 \/ ~(npages < MAX_PAGES) THEN [go |-> FALSE, url |-> <<>>, queue |-> q]
  ELSE IF AlreadyVisited(v, Head(q)) THEN NextFetch(v, Tail(q), npages)
  ELSE [go |-> TRUE, url |-> Head(q), queue |-> Tail(q)]

\* server.js:126-128: the forEach over the filtered links
RECURSIVE PushLinks(_, _, _, _)
PushLinks(hs, q, v, npages) ==
  IF Len(hs) = 0 THEN q
  ELSE PushLinks(Tail(hs),
                 IF Head(hs) \notin v /\ npages + Len(q) < MAX_PAGES
                 THEN Append(q, Head(hs)) ELSE q,
                 v, npages)

\* server.js:121-129: the queue after a fetched page's links are handled
QueueAfterPage(url, links, q, v, npages) ==
  LET base == FindBase(url)
  IN  IF Len(base) = 0 THEN q
      ELSE LET resolved == [i \in 1..Len(links) |-> Resolve(links[i], url)]
               kept == SelectSeq(resolved,
                         LAMBDA h : isDocLike(h) /\ sameOriginPath(h, base[1]))
           IN  PushLinks(kept, q, v, npages)

\* server.js:136-141
ChunkRecords(p) ==
  LET cs == chunkText(p.text, CHUNK_SIZE, CHUNK_OVERLAP)
  IN  [i \in 1..Len(cs) |-> [url |-> p.url, title |-> p.title, text |-> cs[i]]]

RECURSIVE Flatten(_)
Flatten(pgs) ==
  IF Len(pgs) = 0 THEN <<>> ELSE ChunkRecords(Head(pgs)) \o Flatten(Tail(pgs))

\* server.js:146-150: records[i + j].embedding = emb.data[j].embedding
WithEmbeddings(recs, i) ==
  [j \in 1..Len(recs) |->
     IF i < j /\ j <= i + BATCH
     THEN [url |-> recs[j].url, title |-> recs[j].title, text |-> recs[j].text,
           embedding |-> EmbedOf(recs[j].text)]
     ELSE recs[j]]

Locals(p, v, q, pgs, c, recs, i, publish) ==
  [pc |-> p, visited |-> v, queue |-> q, pages |-> pgs, cur |-> c,
   records |-> recs, bi |-> i, publish |-> publish, resp |-> NoResponse]

Finished(response) ==
  [pc |-> "done", visited |-> {}, queue |-> <<>>, pages |-> <<>>, cur |-> <<>>,
   records |-> <<>>, bi |-> 0, publish |-> FALSE, resp |-> response]

\* the embedding loop stops one batch early
LoopDoneOffByBatch(recs, i) == ~(i + BATCH < Len(recs))

\* server.js:152 is reached once the embedding loop's condition fails
LoopDone(recs, i) == ~(i < Len(recs))

\* server.js:145-152 and 161-162, from the top of the embedding loop with
\* index i: either the next embeddings.create is awaited, or RAG_INDEX is
\* assigned and retrieveDocs goes on to await the query's embedding
EmbedNext(v, q, pgs, recs, i) ==
  IF LoopDone(recs, i)
  THEN Locals("embedq", v, q, pgs, <<>>, recs, i, TRUE)
  ELSE Locals("embed", v, q, pgs, <<>>, recs, i, FALSE)

\* server.js:114-141, from the loop condition
CrawlNext(v, q, pgs) ==
  LET nf == NextFetch(v, q, Len(pgs))
  IN  IF nf.go
      THEN Locals("fetch", v \cup {nf.url}, nf.queue, pgs, nf.url, <<>>, 0, FALSE)
      ELSE EmbedNext(v, nf.queue, pgs, Flatten(pgs), 0)

\* server.js:156-158 with 110-112: ensureIndex, called from retrieveDocs
ensureIndex ==
  IF RAG_INDEX.isNull \/ Len(RAG_INDEX.records) = 0
  THEN CrawlNext({}, DOC_BASES, <<>>)
  ELSE Locals("embedq", {}, <<>>, <<>>, <<>>, <<>>, 0, FALSE)

\* ------------------------------------------------------------ the handlers
\* the external call a handler awaits at pc
CallAt(p) ==
  IF p = "fetch" THEN {"fetch"}
  ELSE IF p \in {"embed", "embedq"} THEN {"embed"}
  ELSE IF p \in {"complete", "chat"} THEN {"complete"}
  ELSE {}

\* request r moves to the local values n; f0 and c0 are its histories so far
Apply(r, n, f0, c0) ==
  /\ pc' = [pc EXCEPT ![r] = n.pc]
  /\ visited' = [visited EXCEPT ![r] = n.visited]
  /\ queue' = [queue EXCEPT ![r] = n.queue]
  /\ pages' = [pages EXCEPT ![r] = n.pages]
  /\ cur' = [cur EXCEPT ![r] = n.cur]
  /\ records' = [records EXCEPT ![r] = n.records]
  /\ bi' = [bi EXCEPT ![r] = n.bi]
  /\ resp' = [resp EXCEPT ![r] = n.resp]
  /\ RAG_INDEX' = IF n.publish THEN [isNull |-> FALSE, records |-> n.records]
                  ELSE RAG_INDEX
  /\ fetched' = [fetched EXCEPT ![r] = IF n.pc = "fetch" THEN Append(f0, n.cur) ELSE f0]
  /\ extCalls' = [extCalls EXCEPT ![r] = c0 \cup CallAt(n.pc)]
  /\ UNCHANGED <<chunk, retr>>

\* server.js:228: DOC_BASES.some(b => u && u.startsWith(b))
EntryOk(e) ==
  /\ Len(e.s) > 0
  /\ \E b \in 1..Len(DOC_BASES) : StartsWith(e.s, DOC_BASES[b])
\* u.startsWith is not a function: the filter callback throws a TypeError
EntryThrows(e) == ~e.isString
AllowedList(in) == IF in.allowedDocs.isArray THEN in.allowedDocs.items ELSE <<>>
RECURSIVE FilterInvalid(_)
\* [threw, invalid]: the filter of line 228, entry by entry
FilterInvalid(items) ==
  IF Len(items) = 0 THEN [threw |-> FALSE, invalid |-> <<>>]
  ELSE IF EntryThrows(Head(items)) THEN [threw |-> TRUE, invalid |-> <<>>]
  ELSE LET rest == FilterInvalid(Tail(items))
       IN  IF rest.threw THEN rest
           ELSE [threw |-> FALSE,
                 invalid |-> IF EntryOk(Head(items)) THEN rest.invalid
                             ELSE <<Head(items)>> \o rest.invalid]

\* every chat request is routed to the grounded path
AlwaysGrounded(in) == TRUE

\* server.js:249
IsGrounded(in) == in.mode = "kb-only" \/ in.restrict \in {"kb+docs", "docs-only"}

\* the catch blocks, server.js:236-239 and 264-267
Failure(in) ==
  Finished(Response(500, "", <<>>, "",
                    IF in.endpoint = "/chat" THEN "Failed to fetch AI response"
                    ELSE "Server error"))

AnswerSource(in) == IF in.endpoint = "/chat" THEN "docs-only" ELSE ""

\* server.js:224-235 and 243-256: a handler from its call to its first await
\* or to its response
OnRequest(in) ==
  IF in.endpoint = "/docs-only"
  THEN LET f == FilterInvalid(AllowedList(in))
       IN  IF f.threw THEN Failure(in)
           ELSE IF Len(f.invalid) > 0
           THEN Finished(Response(403, "", <<>>, "", "Only the two Naviga manuals are allowed."))
           ELSE IF TrimStr(in.text) = ""
           THEN Finished(Response(400, "", <<>>, "", "Missing question"))
           ELSE ensureIndex
  ELSE IF in.text = ""
       THEN Finished(Response(400, "", <<>>, "", "Message is required"))
       ELSE IF IsGrounded(in) THEN ensureIndex
       ELSE Locals("chat", {}, <<>>, <<>>, <<>>, <<>>, 0, FALSE)

\* the request pushes a turn to its user's session
Push(in, role, content) ==
  /\ userSessions' =
       [u \in DOMAIN userSessions \cup {in.userId} |->
          IF u = in.userId THEN pushToSession(userSessions, u, role, content)
          ELSE userSessions[u]]
  /\ history' = [history EXCEPT ![in.userId] =
                   Append(@, [role |-> role, content |-> content])]

\* a request takes the lowest slot that is free
FreeSlot(r) ==
  /\ pc[r] \in {"idle", "done"}
  /\ \A r2 \in 1..(r - 1) : pc[r2] \notin {"idle", "done"}

Handle(r, in) ==
  /\ FreeSlot(r)
  /\ LET n == OnRequest(in)
     IN  /\ Apply(r, n, <<>>, {})
         /\ IF n.pc = "chat" THEN Push(in, "user", in.text)
            ELSE UNCHANGED <<userSessions, history>>
  /\ inp' = [inp EXCEPT ![r] = in]
  /\ top' = [top EXCEPT ![r] = <<>>]
  /\ retrieved' = [retrieved EXCEPT ![r] = FALSE]
  /\ thrown' = [thrown EXCEPT ![r] = IF OnRequest(in).resp.status = 500 THEN "filter" ELSE ""]
  /\ arrivals' = arrivals + 1

Arrive(r) ==
  /\ arrivals < MaxArrivals
  /\ \E in \in Inputs : Handle(r, in)

\* fetchPage returned: server.js:119-129, then the loop again
FetchReturn(r, links) ==
  /\ pc[r] = "fetch"
  /\ LET url == cur[r]
         p == [url |-> url, title |-> Title(url), text |-> Text(url)]
         pgs == Append(pages[r], p)
         q == QueueAfterPage(url, links, queue[r], visited[r], Len(pgs))
     IN  Apply(r, CrawlNext(visited[r], q, pgs), fetched[r], extCalls[r])
  /\ UNCHANGED <<userSessions, inp, top, retrieved, thrown, history, arrivals>>

FetchOk(r) == FetchReturn(r, SiteLinks(cur[r]))

\* the error of a fetch leaves the catch and ends the request
FetchErrorAborts(r) == Failure(inp[r])

\* the failed url is put back: un-visited and queued again
FetchErrorRequeues(r) ==
  CrawlNext(visited[r] \ {cur[r]}, Append(queue[r], cur[r]), pages[r])

\* server.js:130-132: the catch logs and the loop goes on with what it has
FetchError(r) == CrawlNext(visited[r], queue[r], pages[r])

\* fetchPage threw: server.js:130-132, then the loop again
FetchFail(r) ==
  /\ pc[r] = "fetch"
  /\ Apply(r, FetchError(r), fetched[r], extCalls[r])
  /\ UNCHANGED <<userSessions, inp, top, retrieved, thrown, history, arrivals>>

\* embeddings.create returned for a batch: server.js:148-151
EmbedOk(r) ==
  /\ pc[r] = "embed"
  /\ Apply(r, EmbedNext(visited[r], queue[r], pages[r],
                        WithEmbeddings(records[r], bi[r]), bi[r] + BATCH),
           fetched[r], extCalls[r])
  /\ UNCHANGED <<userSessions, inp, top, retrieved, thrown, history, arrivals>>

\* the error of a batch is swallowed and the loop goes on
EmbedErrorSwallowed(r) ==
  EmbedNext(visited[r], queue[r], pages[r], records[r], bi[r] + BATCH)

\* embeddings.create threw inside buildDocsIndex: the error reaches the
\* handler's catch
EmbedError(r) == Failure(inp[r])

EmbedFail(r) ==
  /\ pc[r] = "embed"
  /\ Apply(r, EmbedError(r), fetched[r], extCalls[r])
  /\ thrown' = [thrown EXCEPT ![r] = "embed"]
  /\ UNCHANGED <<userSessions, inp, top, retrieved, history, arrivals>>

\* the empty-retrieval check of line 175 left out
NoSourcesIgnored(t) == FALSE

\* server.js:175
NoSources(t) == Len(t) = 0

\* the query's embedding returned: server.js:162-168 and 174-204
QueryEmbedOk(r, q) ==
  /\ pc[r] = "embedq"
  /\ LET t == retrieveDocs(RAG_INDEX.records, q, TOP_K)
     IN  /\ top' = [top EXCEPT ![r] = t]
         /\ Apply(r,
                  IF NoSources(t)
                  THEN Finished(Response(200, FALLBACK, <<>>, AnswerSource(inp[r]), ""))
                  ELSE Locals("complete", {}, <<>>, <<>>, <<>>, <<>>, 0, FALSE),
                  fetched[r], extCalls[r])
  /\ retrieved' = [retrieved EXCEPT ![r] = TRUE]
  /\ UNCHANGED <<userSessions, inp, thrown, history, arrivals>>

QueryEmbedFail(r) ==
  /\ pc[r] = "embedq"
  /\ Apply(r, Failure(inp[r]), fetched[r], extCalls[r])
  /\ thrown' = [thrown EXCEPT ![r] = "query"]
  /\ UNCHANGED <<userSessions, inp, top, retrieved, history, arrivals>>

\* only the best entry is cited
CitationsTopOne(t) ==
  [i \in 1..Min(1, Len(t)) |-> [url |-> t[i].url, title |-> t[i].title]]

\* server.js:210
Citations(t) ==
  [i \in 1..Min(MAX_CITATIONS, Len(t)) |-> [url |-> t[i].url, title |-> t[i].title]]

\* the grounded completion returned: server.js:206-215
CompleteOk(r, content) ==
  /\ pc[r] = "complete"
  /\ LET reply == IF TrimStr(content) = "" THEN FALLBACK ELSE TrimStr(content)
     IN  Apply(r, Finished(Response(200, Sanitize(reply), Citations(top[r]),
                                    AnswerSource(inp[r]), "")),
               fetched[r], extCalls[r])
  /\ UNCHANGED <<userSessions, inp, top, retrieved, thrown, history, arrivals>>

CompleteFail(r) ==
  /\ pc[r] = "complete"
  /\ Apply(r, Failure(inp[r]), fetched[r], extCalls[r])
  /\ thrown' = [thrown EXCEPT ![r] = "complete"]
  /\ UNCHANGED <<userSessions, inp, top, retrieved, history, arrivals>>

\* the free-chat completion returned: server.js:261-263
ChatOk(r, content) ==
  /\ pc[r] = "chat"
  /\ LET reply == IF content = "" THEN SORRY ELSE content
     IN  /\ Push(inp[r], "assistant", reply)
         /\ Apply(r, Finished(Response(200, reply, <<>>, "", "")),
                  fetched[r], extCalls[r])
  /\ UNCHANGED <<inp, top, retrieved, thrown, arrivals>>

\* the free-chat completion threw: server.js:264-267
ChatFail(r) ==
  /\ pc[r] = "chat"
  /\ Apply(r, Failure(inp[r]), fetched[r], extCalls[r])
  /\ thrown' = [thrown EXCEPT ![r] = "chat"]
  /\ UNCHANGED <<userSessions, inp, top, retrieved, history, arrivals>>

ChatRespond(r) == (\E c \in ChatContents : ChatOk(r, c)) \/ ChatFail(r)

Next ==
  \E r \in Reqs :
    \/ Arrive(r)
    \/ FetchOk(r)
    \/ FetchFail(r)
    \/ EmbedOk(r)
    \/ EmbedFail(r)
    \/ \E q \in QueryVecs : QueryEmbedOk(r, q)
    \/ QueryEmbedFail(r)
    \/ \E c \in GroundedContents : CompleteOk(r, c)
    \/ CompleteFail(r)
    \/ \E c \in ChatContents : ChatOk(r, c)
    \/ ChatFail(r)

Spec == Init /\ [][Next]_vars

\* One execution of buildDocsIndex, the fetched pages carrying any links
CrawlArrive ==
  /\ arrivals = 0
  /\ Handle(1, Body("/docs-only", NoDocs, "hi", "default-user", "none", "none"))

FetchAny(r) == \E links \in LinkLists : FetchReturn(r, links)

NextCrawl == CrawlArrive \/ FetchAny(1) \/ FetchFail(1)

SpecCrawl == Init /\ [][NextCrawl]_vars

\* One grounded request from its arrival to its answer, the fetched pages
\* carrying any links
NextScope ==
  \/ CrawlArrive
  \/ FetchAny(1)
  \/ FetchFail(1)
  \/ EmbedOk(1)
  \/ \E q \in QueryVecs : QueryEmbedOk(1, q)
  \/ \E c \in GroundedContents : CompleteOk(1, c)

SpecScope == Init /\ [][NextScope]_vars

\* each fetch returns or fails: axios.get has a timeout (server.js:85)
SpecCrawlFair == SpecCrawl /\ WF_vars(FetchAny(1) \/ FetchFail(1))

\* One user's free-chat requests, one at a time, each with its own message
SessArrive ==
  /\ arrivals < MaxChat
  /\ Handle(1, Body("/chat", NoDocs, Messages[arrivals + 1], "default-user", "none", "none"))

NextSession == SessArrive \/ (\E c \in ChatContents : ChatOk(1, c)) \/ ChatFail(1)

SpecSession == Init /\ [][NextSession]_vars

\* Every free-chat completion call ends, by returning or by throwing; nothing
\* is assumed of fetches and embedding calls, which may hang
SpecLive == Spec /\ \A r \in Reqs : WF_vars(ChatRespond(r))

\* ------------------------------------------------- chunkText, step by step
\* One call chunkText(t, size, overlap), each pass of the for loop a step, for
\* every text up to MaxText characters and every size and overlap up to
\* MaxSize, overlap >= size included.
Chars == {"a", "b", " "}
Texts == UNION {[1..n -> Chars] : n \in 0..MaxText}

InitChunk ==
  /\ ServerInit
  /\ retr = NoRetr
  /\ chunk \in [pc : {"call"}, s : Texts, size : 1..MaxSize, overlap : 0..MaxSize,
                i : {0}, out : {<<>>}]

\* server.js:93-96: out = [], the blank check, i = 0
ChunkCall ==
  /\ chunk.pc = "call"
  /\ chunk' = [chunk EXCEPT !.pc = IF IsBlank(chunk.s) THEN "done" ELSE "loop"]
  /\ UNCHANGED serverVars
  /\ UNCHANGED retr

\* server.js:96-98: one pass of the loop
ChunkIter ==
  /\ chunk.pc = "loop"
  /\ chunk.i < Len(chunk.s)
  /\ Len(chunk.out) < MaxOut
  /\ chunk' = [chunk EXCEPT
                 !.out = Append(@, Slice(chunk.s, chunk.i,
                                         Min(Len(chunk.s), chunk.i + chunk.size))),
                 !.i = @ + Stride(chunk.size, chunk.overlap)]
  /\ UNCHANGED serverVars
  /\ UNCHANGED retr

\* server.js:96, 99: the loop condition fails and out is returned
ChunkReturn ==
  /\ chunk.pc = "loop"
  /\ ~(chunk.i < Len(chunk.s))
  /\ chunk' = [chunk EXCEPT !.pc = "done"]
  /\ UNCHANGED serverVars
  /\ UNCHANGED retr

NextChunk == ChunkCall \/ ChunkIter \/ ChunkReturn

SpecChunk == InitChunk /\ [][NextChunk]_vars

\* ------------------------------------------------ retrieveDocs, the ranking
\* One ranking of retrieveDocs (server.js:163-167) over every index of up to
\* MaxIndex records, every query vector and every k in 0..MaxIndex.
\* <<1, 9>> and <<1, 10>> score just above and just below 0.1 against <<1, 0>>.
IndexVecs == {<<1, 0>>, <<0, 1>>, <<1, 9>>, <<1, 10>>, <<0, 0>>}
DocNames == <<"/p1", "/p2", "/p3", "/p4", "/p5">>
DocUrl(i) == <<ORIGIN, "/circulation-user-manual", DocNames[i]>>
Indexes ==
  UNION { { [i \in 1..n |-> [url |-> DocUrl(i), title |-> "Page", text |-> <<"a">>,
                             embedding |-> e[i]]] : e \in [1..n -> IndexVecs] }
          : n \in 0..MaxIndex }

InitRetrieve ==
  /\ ServerInit
  /\ chunk = NoChunk
  /\ retr \in [pc : {"call"}, index : Indexes, q : QueryVecs, k : 0..MaxIndex,
               result : {<<>>}]

\* server.js:163-167
Retrieve ==
  /\ retr.pc = "call"
  /\ retr' = [retr EXCEPT !.pc = "done",
                          !.result = retrieveDocs(retr.index, retr.q, retr.k)]
  /\ UNCHANGED serverVars
  /\ UNCHANGED chunk

NextRetrieve == Retrieve

SpecRetrieve == InitRetrieve /\ [][NextRetrieve]_vars

\* ------------------------------------------------------------------ claims
Range(f) == {f[i] : i \in DOMAIN f}
NoDup(f) == \A i, j \in DOMAIN f : f[i] = f[j] => i = j
PageUrls(pgs) == [i \in 1..Len(pgs) |-> pgs[i].url]

\* C1: at most one execution of buildDocsIndex is in flight at any time.
C1_OneBuildInFlight == Cardinality({r \in Reqs : pc[r] \in BuildPcs}) <= 1

\* C2: a request whose retrieveDocs returned an empty list is answered with
\* exactly the fixed fallback reply and no citations, and has made no
\* completion call.
C2_EmptyRetrievalFallsBack ==
  \A r \in Reqs :
    (retrieved[r] /\ Len(top[r]) = 0) =>
      /\ pc[r] = "done"
      /\ resp[r].status = 200
      /\ resp[r].reply = FALLBACK
      /\ resp[r].citations = <<>>
      /\ "complete" \notin extCalls[r]

\* retrieval came back empty from an index that holds records
C2_Witness ==
  \E r \in Reqs :
    retrieved[r] /\ Len(top[r]) = 0 /\ Len(RAG_INDEX.records) > 0 /\ pc[r] = "done"

\* an allowed-sources list with a url that no DOC_BASES prefixes
HasOutsideEntry(in) ==
  /\ in.allowedDocs.isArray
  /\ \E i \in 1..Len(in.allowedDocs.items) :
       LET e == in.allowedDocs.items[i]
       IN  e.isString /\ ~(\E b \in 1..Len(DOC_BASES) : StartsWith(e.s, DOC_BASES[b]))
\* the request asks for a grounded answer, by its endpoint or by its flags
AsksGrounded(in) ==
  \/ in.endpoint = "/docs-only"
  \/ in.endpoint = "/chat"
       /\ (in.mode = "kb-only" \/ in.restrict \in {"kb+docs", "docs-only"})

\* C3: every grounded request whose allowed-sources list has an entry outside
\* the two DOC_BASES is rejected with the authorization error (403) and makes
\* no crawl, embedding or completion call.
C3_OutsideSourceRejected ==
  \A r \in Reqs :
    (pc[r] # "idle" /\ AsksGrounded(inp[r]) /\ HasOutsideEntry(inp[r])) =>
      /\ pc[r] = "done"
      /\ resp[r].status = 403
      /\ extCalls[r] = {}

\* C4: one execution of buildDocsIndex fetches at most MAX_PAGES distinct
\* urls, failed fetches included.
C4_FetchesWithinCap ==
  \A r \in Reqs : Cardinality(Range(fetched[r])) <= MAX_PAGES

\* C5: in one execution of buildDocsIndex no url is fetched more than once and
\* no url is recorded more than once in pages.
C5_NoUrlTwice ==
  \A r \in Reqs : NoDup(fetched[r]) /\ NoDup(PageUrls(pages[r]))

\* the queue holds a url that has been fetched already, while a fetch is awaited
C5_Witness ==
  \E r \in Reqs :
    /\ pc[r] = "fetch"
    /\ \E i \in 1..Len(queue[r]) : queue[r][i] \in Range(fetched[r])

\* the generation holds, for each of its pages in order, every chunk of the page
StripEmbedding(recs) ==
  [i \in 1..Len(recs) |->
     [url |-> recs[i].url, title |-> recs[i].title, text |-> recs[i].text]]
RECURSIVE Dedup(_)
Dedup(urls) ==
  IF Len(urls) = 0 THEN <<>>
  ELSE LET rest == Dedup(SubSeq(urls, 1, Len(urls) - 1))
       IN  IF urls[Len(urls)] \in Range(rest) THEN rest
           ELSE Append(rest, urls[Len(urls)])
WholePages(recs) ==
  LET urls == Dedup(PageUrls(recs))
  IN  StripEmbedding(recs) =
        Flatten([i \in 1..Len(urls) |->
                   [url |-> urls[i], title |-> Title(urls[i]), text |-> Text(urls[i])]])

\* C6: in every state RAG_INDEX is null or a complete generation: every
\* record carries its embedding and every chunk of every page of the
\* generation is there.
C6_IndexNullOrComplete ==
  \/ RAG_INDEX.isNull
  \/ /\ \A i \in 1..Len(RAG_INDEX.records) :
          /\ "embedding" \in DOMAIN RAG_INDEX.records[i]
          /\ RAG_INDEX.records[i].embedding = EmbedOf(RAG_INDEX.records[i].text)
     /\ WholePages(RAG_INDEX.records)

\* a generation is published while another build has embedded only a part
\* of its records
C6_Witness ==
  /\ Len(RAG_INDEX.records) > 0
  /\ \E r \in Reqs :
       /\ pc[r] = "embed"
       /\ \E i, j \in 1..Len(records[r]) :
            /\ "embedding" \in DOMAIN records[r][i]
            /\ "embedding" \notin DOMAIN records[r][j]

\* h is user/assistant pairs in alternation
IsPairs(h) ==
  /\ Len(h) % 2 = 0
  /\ \A i \in 1..Len(h) : h[i].role = (IF i % 2 = 1 THEN "user" ELSE "assistant")

\* C7: after M > MAX_TURNS user/assistant pairs appended in alternation, the
\* session has exactly 2 * MAX_TURNS turns: the MAX_TURNS most recent pairs
\* in their order, beginning with a user turn.
C7_SessionKeepsLastPairs ==
  \A u \in DOMAIN userSessions :
    (IsPairs(history[u]) /\ Len(history[u]) > 2 * MAX_TURNS) =>
      /\ Len(userSessions[u]) = 2 * MAX_TURNS
      /\ userSessions[u] =
           SubSeq(history[u], Len(history[u]) - 2 * MAX_TURNS + 1, Len(history[u]))
      /\ userSessions[u][1].role = "user"

\* MAX_TURNS + 2 pairs have been appended in alternation
C7_Witness ==
  \E u \in DOMAIN userSessions :
    IsPairs(history[u]) /\ Len(history[u]) = 2 * (MAX_TURNS + 2)

\* C8: with one free-chat request in flight per user at a time, every stored
\* session alternates user, assistant, ... beginning with a user turn.
C8_SessionsAlternate ==
  \A u \in DOMAIN userSessions :
    \A i \in 1..Len(userSessions[u]) :
      userSessions[u][i].role = (IF i % 2 = 1 THEN "user" ELSE "assistant")

\* a free-chat request, by its body
IsFreeChat(in) ==
  /\ in.endpoint = "/chat"
  /\ in.text # ""
  /\ in.mode # "kb-only"
  /\ in.restrict \notin {"kb+docs", "docs-only"}

\* C9: a free-chat request never starts or awaits an index build (it makes
\* no fetch and no embedding call), and once it awaits its completion call it
\* is answered, whatever any build does; when the call returns the answer is
\* the reply.
C9_FreeChatNeedsNoIndex ==
  /\ [](\A r \in Reqs :
          (pc[r] # "idle" /\ IsFreeChat(inp[r])) =>
            /\ pc[r] \in {"chat", "done"}
            /\ extCalls[r] = {"complete"}
            /\ (pc[r] = "done" /\ thrown[r] = "") =>
                 (resp[r].status = 200 /\ resp[r].reply # ""))
  /\ \A r \in Reqs : (pc[r] = "chat") ~> (pc[r] = "done")

\* a free-chat request is answered with its reply while a build is in flight
C9_Witness ==
  \E r, b \in Reqs :
    /\ IsFreeChat(inp[r]) /\ pc[r] = "done" /\ resp[r].status = 200
    /\ pc[b] \in BuildPcs

\* C10: when an embedding call of buildDocsIndex fails, the step leaves
\* RAG_INDEX as it was and the request ends with a failure response (500);
\* the build does nothing after that.
C10_EmbedFailureWritesNothing ==
  /\ [][\A r \in Reqs :
          (thrown'[r] = "embed" /\ thrown[r] # "embed") =>
            /\ RAG_INDEX' = RAG_INDEX
            /\ pc'[r] = "done"
            /\ resp'[r].status = 500]_vars
  /\ [](\A r \in Reqs :
          thrown[r] = "embed" => (pc[r] = "done" /\ resp[r].status = 500))

\* a build's embedding call has failed while the index holds a generation
\* published by another build
C10_Witness ==
  \E r \in Reqs :
    thrown[r] = "embed" /\ resp[r].status = 500 /\ Len(RAG_INDEX.records) > 0

\* the request's step in which its awaited fetch came back
FetchCameBack(r) ==
  pc[r] = "fetch" /\ (pc'[r] # "fetch" \/ fetched'[r] # fetched[r])
\* urls whose fetch has come back without a page being recorded
FailedUrls(r) ==
  Range(fetched[r]) \ (Range(PageUrls(pages[r]))
                         \cup (IF pc[r] = "fetch" THEN {cur[r]} ELSE {}))

\* C11: a failed fetch never aborts buildDocsIndex: the step records no page
\* for the url and ends no request, the url stays visited and is passed to
\* fetchPage only that once, and when the queue still holds an unvisited url
\* and pages is below MAX_PAGES the next fetch is of such a url.
C11_FailedFetchSkipsUrl ==
  /\ [][\A r \in Reqs :
          (FetchCameBack(r) /\ cur[r] \notin Range(PageUrls(pages'[r]))) =>
            /\ pc'[r] # "done"
            /\ resp'[r] = NoResponse
            /\ pages'[r] = pages[r]
            /\ cur[r] \in visited'[r]
            /\ LET rest == Range(queue[r]) \ visited[r]
               IN  (rest # {} /\ Len(pages[r]) < MAX_PAGES) =>
                     (pc'[r] = "fetch" /\ cur'[r] \in rest)]_vars
  /\ [](\A r \in Reqs :
          \A u \in FailedUrls(r) :
            Cardinality({i \in 1..Len(fetched[r]) : fetched[r][i] = u}) = 1)

\* a fetch has failed, a later one has given a page and another is awaited
C11_Witness ==
  \E r \in Reqs :
    /\ pc[r] = "fetch"
    /\ \E i \in 1..Len(fetched[r]) :
         /\ fetched[r][i] \in FailedUrls(r)
         /\ \E j \in (i + 1)..Len(fetched[r]) :
              fetched[r][j] \in Range(PageUrls(pages[r]))

\* C12: for every non-blank text shorter than size and every overlap with
\* 0 <= overlap < size, chunkText returns exactly one chunk, the text itself.
C12_ShortTextIsOneChunk ==
  (/\ chunk.pc = "done"
   /\ ~IsBlank(chunk.s)
   /\ Len(chunk.s) < chunk.size
   /\ 0 <= chunk.overlap /\ chunk.overlap < chunk.size) =>
    chunk.out = <<chunk.s>>

\* the first n characters of each chunk, one after the other
RECURSIVE FirstOfEach(_, _)
FirstOfEach(cs, n) ==
  IF Len(cs) = 0 THEN <<>>
  ELSE SubSeq(Head(cs), 1, Min(n, Len(Head(cs)))) \o FirstOfEach(Tail(cs), n)

\* C13: for every non-blank text and every size and overlap with
\* 0 <= overlap < size, the first size - overlap characters of each chunk
\* that chunkText returns, put together in order, are the text.
C13_StridesRebuildText ==
  (/\ chunk.pc = "done"
   /\ ~IsBlank(chunk.s)
   /\ 0 <= chunk.overlap /\ chunk.overlap < chunk.size) =>
    FirstOfEach(chunk.out, chunk.size - chunk.overlap) = chunk.s

\* three or more chunks that overlap, the last one shorter than the others
C13_Witness ==
  /\ chunk.pc = "done"
  /\ 0 < chunk.overlap /\ chunk.overlap < chunk.size
  /\ Len(chunk.out) >= 3
  /\ Len(chunk.out[Len(chunk.out)]) < chunk.size - chunk.overlap

\* C14: chunkText terminates for every text, size and overlap, overlap >= size
\* included: every pass of the loop moves i forward, so that the loop makes
\* at most one pass per character of the text.
C14_ChunkLoopEnds ==
  /\ [][chunk'.out # chunk.out => chunk'.i > chunk.i]_vars
  /\ [](Len(chunk.out) <= Len(chunk.s))

\* C15: retrieveDocs returns exactly those of the k highest-scoring chunks
\* whose score is strictly above the threshold, in descending score order:
\* at most k entries, each a scored record of the index above the threshold
\* with fewer than k records scoring higher, none twice, no entry scoring
\* higher than one before it, and every record above the threshold that is
\* left out has k others scoring at least as high.
C15_TopKAboveThreshold ==
  retr.pc = "done" =>
    LET res == retr.result
        all == Range(Scored(retr.index, retr.q))
    IN  /\ Len(res) <= retr.k
        /\ NoDup(res)
        /\ \A i \in 1..Len(res) :
             /\ res[i] \in all
             /\ AboveThreshold(res[i].score)
             /\ Cardinality({z \in all : ScoreGT(z.score, res[i].score)}) < retr.k
        /\ \A i, j \in 1..Len(res) :
             i < j => ~ScoreGT(res[j].score, res[i].score)
        /\ \A y \in all \ Range(res) :
             AboveThreshold(y.score) =>
               Cardinality({z \in all \ {y} : ~ScoreGT(y.score, z.score)}) >= retr.k

\* k = 2 cuts off a record that is above the threshold, and the two records
\* returned differ in score
C15_Witness ==
  /\ retr.pc = "done"
  /\ retr.k = 2
  /\ Len(retr.result) = 2
  /\ ScoreGT(retr.result[1].score, retr.result[2].score)
  /\ \E y \in Range(Scored(retr.index, retr.q)) \ Range(retr.result) :
       AboveThreshold(y.score)

\* C16: once RAG_INDEX holds a non-empty generation, no step changes its
\* value.
C16_GenerationNeverChanges ==
  [][(~RAG_INDEX.isNull /\ Len(RAG_INDEX.records) > 0) => RAG_INDEX' = RAG_INDEX]_vars

\* C17: when retrieveDocs returned a non-empty list top and the request is
\* answered, the citations of the answer are the {url, title} of the first
\* min(2, |top|) entries of top in rank order, also when the fallback reply
\* stands in for an empty reply of the model.
C17_CitationsAreTopTwo ==
  \A r \in Reqs :
    (retrieved[r] /\ Len(top[r]) > 0 /\ pc[r] = "done" /\ resp[r].status = 200) =>
      LET c == resp[r].citations
          n == IF Len(top[r]) < 2 THEN Len(top[r]) ELSE 2
      IN  /\ Len(c) = n
          /\ \A i \in 1..n :
               /\ DOMAIN c[i] = {"url", "title"}
               /\ c[i].url = top[r][i].url
               /\ c[i].title = top[r][i].title

\* the model's reply was empty, the fallback reply stands in for it, and top
\* has more than two entries, the third from another page than the second
C17_Witness ==
  \E r \in Reqs :
    /\ retrieved[r] /\ pc[r] = "done" /\ resp[r].status = 200
    /\ Len(top[r]) > 2
    /\ resp[r].reply = FALLBACK
    /\ top[r][3].url # top[r][2].url

\* C18: a request with a missing or empty question/message is rejected with a
\* validation error (400, or 403 for its sources) before any external call:
\* it is answered in the step of its arrival, it has made no fetch, embedding
\* or completion call, and that step leaves RAG_INDEX and every session as
\* they were.
C18_MissingTextRejected ==
  /\ [](\A r \in Reqs :
          (inp[r].endpoint # "" /\ inp[r].text = "") =>
            /\ pc[r] = "done"
            /\ resp[r].status \in {400, 403}
            /\ extCalls[r] = {})
  /\ [][\A r \in Reqs :
          (FreeSlot(r) /\ arrivals' # arrivals /\ inp'[r].text = "") =>
            (RAG_INDEX' = RAG_INDEX /\ userSessions' = userSessions)]_vars

\* C19: every execution of the crawl loop of buildDocsIndex terminates, for
\* every link graph and every pattern of fetch successes and failures, when
\* each fetch returns or fails: a fetch is awaited only with pages below
\* MAX_PAGES, every pass of the loop that leads to another fetch has either
\* recorded a page or left the queue shorter, and a request that awaits a
\* fetch comes to the end of the loop.
C19_CrawlLoopTerminates ==
  /\ [](\A r \in Reqs : pc[r] = "fetch" => Len(pages[r]) < MAX_PAGES)
  /\ [][\A r \in Reqs :
          (FetchCameBack(r) /\ pc'[r] = "fetch") =>
            \/ Len(pages'[r]) > Len(pages[r])
            \/ Len(pages'[r]) = Len(pages[r]) /\ Len(queue'[r]) < Len(queue[r])]_vars
  /\ \A r \in Reqs : (pc[r] = "fetch") ~> (pc[r] # "fetch")

\* the loop has ended after four fetches, of which at least one failed and
\* at least two gave a page
C19_Witness ==
  \E r \in Reqs :
    /\ pc[r] \in {"embed", "embedq"}
    /\ FailedUrls(r) # {}
    /\ Len(pages[r]) >= 2
    /\ Len(fetched[r]) >= 4

\* what the fragment-only hrefs of a page resolve to against the page's url
FragmentRefs(url) == {Resolve(<<f>>, url) : f \in FragTokens}

\* C20: a link whose raw href is a fragment-only reference is never added to
\* the crawl queue: when a fetched page has been handled, no url that the
\* step has queued (or has taken from the queue to fetch next) is what a
\* fragment-only href of that page resolves to.  No other href of Hrefs
\* resolves to such a url.
C20_FragmentNeverQueued ==
  [][\A r \in Reqs :
       FetchCameBack(r) =>
         \A u \in (Range(queue'[r]) \cup (IF pc'[r] = "fetch" THEN {cur'[r]} ELSE {}))
                   \ Range(queue[r]) :
           u \notin FragmentRefs(cur[r])]_vars

\* u is one of the two DOC_BASES, or has the origin of one of them and a path
\* that begins with its path
InScope(u) ==
  \E b \in 1..Len(DOC_BASES) :
    \/ u = DOC_BASES[b]
    \/ /\ Len(u) > 0
       /\ u[1] = DOC_BASES[b][1]
       /\ StartsWith(Tail(SelectSeq(u, LAMBDA t : t \notin FragTokens)),
                     Tail(DOC_BASES[b]))

\* C21: every url passed to fetchPage is one of the two DOC_BASES or matches
\* one of them by origin and path prefix, and so is the url of every page, of
\* every record of a build and of RAG_INDEX, of every entry that retrieveDocs
\* returned and of every citation of an answer, whatever links the fetched
\* pages carry.
C21_EverythingInScope ==
  /\ \A i \in 1..Len(RAG_INDEX.records) : InScope(RAG_INDEX.records[i].url)
  /\ \A r \in Reqs :
       /\ \A i \in 1..Len(fetched[r]) : InScope(fetched[r][i])
       /\ \A i \in 1..Len(queue[r]) : InScope(queue[r][i])
       /\ \A i \in 1..Len(pages[r]) : InScope(pages[r][i].url)
       /\ \A i \in 1..Len(records[r]) : InScope(records[r][i].url)
       /\ \A i \in 1..Len(top[r]) : InScope(top[r][i].url)
       /\ \A i \in 1..Len(resp[r].citations) : InScope(resp[r].citations[i].url)

\* an answer cites a page that is none of the two bases, found by a link
C21_Witness ==
  \E r \in Reqs :
    /\ pc[r] = "done" /\ resp[r].status = 200
    /\ \E i \in 1..Len(resp[r].citations) :
         resp[r].citations[i].url \notin Range(DOC_BASES)
    /\ Len(fetched[r]) >= 3

====
